---- MODULE Spec2Model ----
(***************************************************************************)
(* Device control core of homer-mcp: the device registry                   *)
(* (services/device-registry.ts), the Kasa adapter (devices/kasa.ts) and   *)
(* the HTTP control surface (the express server).                          *)
(*                                                                         *)
(* A request handler runs without interruption from one await to the next; *)
(* the only suspension point is a protocol exchange (KasaDevice            *)
(* .sendCommand).  Start models a handler from its first line to its first *)
(* exchange (or its response), Settle models the settlement of the         *)
(* exchange in flight and everything the handler does up to its next       *)
(* exchange (or its response).                                             *)
(***************************************************************************)
EXTENDS Integers, Sequences, FiniteSets, TLC

VARIABLES
    devices,    \* DeviceRegistry.devices: id -> Device
    snapshot,   \* the device list of the registry file as last written
    saves,      \* number of snapshot write attempts (calls of saveRegistry)
    world,      \* the physical devices: id -> what the device itself holds
    calls,      \* the request handlers: slot -> handler state
    started,    \* number of requests received so far
    now,        \* the clock read by new Date()
    api,        \* the last call made of the registry's own methods
    exchange    \* one call of sendCommand seen at its socket

vars == <<devices, snapshot, saves, world, calls, started, now, api, exchange>>

----------------------------------------------------------------------------
(* Bounds of the model *)

\* requests received in one behaviour
MaxCalls == 2
\* handler slots: how many requests can be in flight at once
NumSlots == 2
\* requests received in one behaviour of the wide alphabet
MaxWide == 1
\* requests received in one behaviour of overlapping reads
MaxReads == 3
\* calls of the registry's methods in one behaviour
MaxOps == 2
\* length of the texts that are encrypted and decrypted
MaxText == 3

----------------------------------------------------------------------------
(* Values *)

\* JavaScript's undefined: an optional field that is absent
Undef == -999
\* a JSON value whose typeof is not 'number' (a string, say)
NotNum == -998

NoColor == [r |-> Undef, g |-> Undef, b |-> Undef]

\* DeviceState; every field is optional
NoState == [power |-> "undefined", brightness |-> Undef, hue |-> Undef,
            saturation |-> Undef, color_temp |-> Undef]

\* DeviceControlRequest and the bodies of the other routes, in one record:
\* action/brightness/color/hue/saturation/color_temp for /control,
\* state for /power, level for /brightness, color+brightness for /color
NoReq == [action |-> "undefined", state |-> "undefined", level |-> Undef,
          brightness |-> Undef, color |-> NoColor, hue |-> Undef,
          saturation |-> Undef, color_temp |-> Undef]

----------------------------------------------------------------------------
(* The vendor commands (the objects handed to sendCommand) *)

NoCmd == [kind |-> "none", state |-> Undef, hue |-> Undef, saturation |-> Undef,
          color_temp |-> Undef, brightness |-> Undef]

\* getDeviceInfo: {'system': {'get_sysinfo': {}}}
GetSysinfo == [NoCmd EXCEPT !.kind = "get_sysinfo"]

\* {'system': {'set_relay_state': {'state': s}}}
SetRelayState(s) == [NoCmd EXCEPT !.kind = "set_relay_state", !.state = s]

\* {'smartlife.iot.smartbulb.lightingservice': {'transition_light_state': {...}}}
TransitionLightState(h, s, ct, b) ==
    [NoCmd EXCEPT !.kind = "transition_light_state", !.hue = h,
                  !.saturation = s, !.color_temp = ct, !.brightness = b]

\* What a synchronous stretch of adapter code ends in: an exception, an
\* exchange to wait for, or a plain return.
Throw(msg) == [tag |-> "throw", error |-> msg, cmd |-> NoCmd]
Send(cmd) == [tag |-> "send", error |-> "undefined", cmd |-> cmd]
Return == [tag |-> "return", error |-> "undefined", cmd |-> NoCmd]

----------------------------------------------------------------------------
(* KasaDevice: the numeric setters, up to their sendCommand *)

\* Math.max that looks at its first argument only
Max3First(a, b, c) == a

Max3(a, b, c) == IF a >= b /\ a >= c THEN a ELSE IF b >= c THEN b ELSE c
Min3(a, b, c) == IF a <= b /\ a <= c THEN a ELSE IF b <= c THEN b ELSE c

\* Math.round(n / d) for d > 0, n >= 0
RoundDiv(n, d) == (2 * n + d) \div (2 * d)

\* Math.round of a double that should be n / d but, where n / d lies exactly
\* halfway between two integers, was computed just below it
RoundDivBelow(n, d) ==
    IF (2 * n) % (2 * d) = d THEN RoundDiv(n, d) - 1 ELSE RoundDiv(n, d)

\* Math.round, of the exact quotient or of the double just below a half
Round(below, n, d) == IF below THEN RoundDivBelow(n, d) ELSE RoundDiv(n, d)

\* rgbToHsv with either rounding: h = round(360 h'), s = round(100 s')
rgbToHsvBy(below, r, g, b) ==
    LET max == Max3(r, g, b)
        min == Min3(r, g, b)
        diff == max - min
        s == IF max = 0 THEN 0 ELSE Round(below, 100 * diff, max)
        h == IF diff = 0 THEN 0
             ELSE IF max = r
                  THEN Round(below, 60 * (g - b) + (IF g < b THEN 360 * diff ELSE 0), diff)
             ELSE IF max = g
                  THEN Round(below, 60 * (b - r) + 120 * diff, diff)
             ELSE Round(below, 60 * (r - g) + 240 * diff, diff)
    IN  [h |-> h, s |-> s, v |-> Round(below, 100 * max, 255)]

\* rgbToHsv, in exact arithmetic.  The code divides doubles: its result is
\* this one except for some inputs whose exact hue or saturation ends in
\* one half, for which it is rgbToHsvBelow's
rgbToHsv(r, g, b) == rgbToHsvBy(FALSE, r, g, b)

rgbToHsvBelow(r, g, b) == rgbToHsvBy(TRUE, r, g, b)

\* setBrightness that sends no brightness in its command
setBrightnessDropped(brightness) ==
    IF brightness < 0 \/ brightness > 100
    THEN Throw("Brightness must be between 0 and 100")
    ELSE Send(TransitionLightState(Undef, Undef, Undef, Undef))

setBrightness(brightness) ==
    IF brightness < 0 \/ brightness > 100
    THEN Throw("Brightness must be between 0 and 100")
    ELSE Send(TransitionLightState(Undef, Undef, Undef, brightness))

setColor(hue, saturation, brightness) ==
    IF hue < 0 \/ hue > 360
    THEN Throw("Hue must be between 0 and 360")
    ELSE IF saturation < 0 \/ saturation > 100
    THEN Throw("Saturation must be between 0 and 100")
    ELSE IF brightness # Undef /\ (brightness < 0 \/ brightness > 100)
    THEN Throw("Brightness must be between 0 and 100")
    ELSE Send(TransitionLightState(hue, saturation, Undef, brightness))

\* setColorTemperature without the check of its optional brightness
setColorTemperatureAnyBrightness(colorTemp, brightness) ==
    IF colorTemp < 2500 \/ colorTemp > 9000
    THEN Throw("Color temperature must be between 2500K and 9000K")
    ELSE Send(TransitionLightState(Undef, Undef, colorTemp, brightness))

setColorTemperature(colorTemp, brightness) ==
    IF colorTemp < 2500 \/ colorTemp > 9000
    THEN Throw("Color temperature must be between 2500K and 9000K")
    ELSE IF brightness # Undef /\ (brightness < 0 \/ brightness > 100)
    THEN Throw("Brightness must be between 0 and 100")
    ELSE Send(TransitionLightState(Undef, Undef, colorTemp, brightness))

setRGBColor(r, g, b, brightness) ==
    IF r < 0 \/ r > 255 \/ g < 0 \/ g > 255 \/ b < 0 \/ b > 255
    THEN Throw("RGB values must be between 0 and 255")
    ELSE LET hsv == rgbToHsv(r, g, b)
         IN  setColor(hsv.h, hsv.s, brightness)

turnOn == Send(SetRelayState(1))
turnOff == Send(SetRelayState(0))

\* control, lines 398-407: the settings applied after the power command
controlSettings(request) ==
    IF request.color # NoColor
    THEN setRGBColor(request.color.r, request.color.g, request.color.b,
                     request.brightness)
    ELSE IF request.hue # Undef /\ request.saturation # Undef
    THEN setColor(request.hue, request.saturation, request.brightness)
    ELSE IF request.color_temp # Undef /\ request.color_temp # 0
    THEN setColorTemperature(request.color_temp, request.brightness)
    ELSE IF request.brightness # Undef
    THEN setBrightness(request.brightness)
    ELSE Return

\* control, lines 378-396: the first exchange of a unified request
controlPower(request) ==
    CASE request.action = "on" -> turnOn
      [] request.action = "off" -> turnOff
      [] request.action = "toggle" -> Send(GetSysinfo)
      [] OTHER -> controlSettings(request)

----------------------------------------------------------------------------
(* KasaDevice: the cipher.  A text is a sequence of char codes 0..255, a   *)
(* buffer a sequence of bytes.                                             *)

\* a ^ b on bytes
RECURSIVE Xor(_, _)
Xor(a, b) ==
    IF a = 0 THEN b
    ELSE IF b = 0 THEN a
    ELSE ((a + b) % 2) + 2 * Xor(a \div 2, b \div 2)

\* writeUInt32BE(length, 0)
UInt32BE(n) ==
    <<(n \div 16777216) % 256, (n \div 65536) % 256, (n \div 256) % 256, n % 256>>

\* readUInt32BE(0)
readUInt32BE(buffer) ==
    16777216 * buffer[1] + 65536 * buffer[2] + 256 * buffer[3] + buffer[4]

\* the loop of encrypt from index i with the running key
RECURSIVE encryptFrom(_, _, _)
encryptFrom(text, i, key) ==
    IF i > Len(text) THEN <<>>
    ELSE <<Xor(text[i], key)>> \o encryptFrom(text, i + 1, Xor(text[i], key))

\* encrypt: the length header, then the payload XORed with the autokey
encrypt(text) == UInt32BE(Len(text)) \o encryptFrom(text, 1, 171)

\* the loop of decrypt from index i with the running key
RECURSIVE decryptFrom(_, _, _)
decryptFrom(buffer, i, key) ==
    IF i > Len(buffer) THEN <<>>
    ELSE <<Xor(buffer[i], key)>> \o decryptFrom(buffer, i + 1, buffer[i])

\* decrypt: the header is skipped when the buffer is longer than four bytes
\* and its first four bytes give the length of the rest
decrypt(buffer) ==
    LET start == IF Len(buffer) > 4 /\ readUInt32BE(buffer) = Len(buffer) - 4
                 THEN 4 ELSE 0
    IN  decryptFrom(buffer, start + 1, 171)

----------------------------------------------------------------------------
(* The peer: the physical device at the other end of a TCP connection *)

\* How the peer behaves in one exchange: it answers and obeys, it answers
\* with a non-zero err_code, it never answers, it refuses the connection,
\* or it answers bytes that do not decrypt to JSON.
Behaviours == {"ok", "errcode", "timeout", "refused", "garbage"}

\* The behaviours of the peer while requests overlap
NarrowBehaviours == {"ok", "errcode", "timeout"}

NoLight == [on_off |-> Undef, hue |-> Undef, saturation |-> Undef,
            color_temp |-> Undef, brightness |-> Undef]

\* A KasaResponse as far as the adapter reads it: whether system.get_sysinfo
\* is there, the err_code of the addressed member, relay_state, light_state.
NoResponse == [sysinfo |-> FALSE, err_code |-> Undef, relay_state |-> Undef,
               light_state |-> NoLight]

\* The response a device in state w gives to command cmd when it behaves well
Answer(w, cmd) ==
    CASE cmd.kind = "get_sysinfo" ->
           IF w.kind = "plug"
           THEN [NoResponse EXCEPT !.sysinfo = TRUE, !.err_code = 0,
                                   !.relay_state = w.on]
           ELSE [NoResponse EXCEPT !.sysinfo = TRUE, !.err_code = 0,
                    !.light_state = [on_off |-> w.on, hue |-> w.hue,
                                     saturation |-> w.saturation,
                                     color_temp |-> w.color_temp,
                                     brightness |-> w.brightness]]
      [] OTHER -> [NoResponse EXCEPT !.err_code = 0]

\* The response of a device that reports a vendor error: a well-formed
\* object whose addressed member holds only a non-zero err_code
ErrorAnswer(cmd) ==
    [NoResponse EXCEPT !.sysinfo = (cmd.kind = "get_sysinfo"), !.err_code = -1]

\* The device after it obeyed cmd
Obey(w, cmd) ==
    CASE cmd.kind = "set_relay_state" -> [w EXCEPT !.on = cmd.state]
      [] cmd.kind = "transition_light_state" /\ w.kind = "bulb" ->
           [w EXCEPT
              !.hue = IF cmd.hue # Undef THEN cmd.hue ELSE @,
              !.saturation = IF cmd.saturation # Undef THEN cmd.saturation ELSE @,
              !.color_temp = IF cmd.color_temp # Undef THEN cmd.color_temp ELSE @,
              !.brightness = IF cmd.brightness # Undef THEN cmd.brightness ELSE @]
      [] OTHER -> w

\* sendCommand: how the promise settles for each behaviour of the peer
sendCommand(w, cmd, behaviour) ==
    CASE behaviour = "ok" ->
           [resolved |-> TRUE, error |-> "undefined", response |-> Answer(w, cmd)]
      [] behaviour = "errcode" ->
           [resolved |-> TRUE, error |-> "undefined", response |-> ErrorAnswer(cmd)]
      [] behaviour = "garbage" ->
           [resolved |-> FALSE, error |-> "Failed to parse response",
            response |-> NoResponse]
      [] behaviour = "refused" ->
           [resolved |-> FALSE, error |-> "Connection error",
            response |-> NoResponse]
      [] OTHER ->
           [resolved |-> FALSE, error |-> "Connection timeout",
            response |-> NoResponse]

\* turnOn / turnOff after their exchange: the err_code check
relayChecked(cmd, response) ==
    IF response.err_code # 0
    THEN Throw(IF cmd.state = 1 THEN "Failed to turn on device"
                                ELSE "Failed to turn off device")
    ELSE Return

\* control, lines 386-394: the power command toggle chooses from the poll
\* (relay_state || light_state.on_off, then === 1)
toggleChoice(info) ==
    LET currentState ==
            IF info.sysinfo /\ info.relay_state # Undef /\ info.relay_state # 0
            THEN info.relay_state
            ELSE IF info.sysinfo THEN info.light_state.on_off ELSE Undef
    IN  IF currentState = 1 THEN turnOff ELSE turnOn

\* getState after its exchange: the uniform state, or the exception
getState(info) ==
    IF ~info.sysinfo
    THEN [thrown |-> TRUE, error |-> "Unable to get device info", state |-> NoState]
    ELSE [thrown |-> FALSE, error |-> "undefined",
          state |->
            IF info.relay_state # Undef
            THEN [NoState EXCEPT
                    !.power = IF info.relay_state = 1 THEN "on" ELSE "off"]
            ELSE IF info.light_state # NoLight
            THEN [power |-> IF info.light_state.on_off = 1 THEN "on" ELSE "off",
                  brightness |-> info.light_state.brightness,
                  hue |-> info.light_state.hue,
                  saturation |-> info.light_state.saturation,
                  color_temp |-> info.light_state.color_temp]
            ELSE NoState]

----------------------------------------------------------------------------
(* DeviceRegistry.  reg is the registry as a value: its map, the file as   *)
(* last written, and the number of write attempts.  t is new Date(), ok    *)
(* tells whether writeFileSync succeeds.                                   *)

Reg == [devices |-> devices, snapshot |-> snapshot, saves |-> saves]

\* Array.from(this.devices.values()): the devices of the map in a row.  The
\* map here does not keep the order of insertion, so every order is a result
values(map) ==
    LET n == Cardinality(DOMAIN map)
        orders == {p \in [1..n -> DOMAIN map] :
                      \A i, j \in 1..n : p[i] = p[j] => i = j}
    IN  {[i \in 1..n |-> map[p[i]]] : p \in orders}

\* saveRegistry: one write attempt of the whole device list; a failure is
\* logged and swallowed
saveRegistry(reg, ok) ==
    [reg EXCEPT !.snapshot = IF ok THEN reg.devices ELSE @, !.saves = @ + 1]

\* getDevice falling back to some device when the id is unknown
getDeviceOrAny(reg, id) ==
    IF id \in DOMAIN reg.devices THEN <<reg.devices[id]>>
    ELSE <<reg.devices[CHOOSE i \in DOMAIN reg.devices : TRUE]>>

getDevice(reg, id) == IF id \in DOMAIN reg.devices THEN <<reg.devices[id]>> ELSE <<>>

\* {...device, ...updates}
Spread(device, updates) ==
    [f \in (DOMAIN device) \cup (DOMAIN updates) |->
        IF f \in DOMAIN updates THEN updates[f] ELSE device[f]]

\* updateDevice with the caller's updates spread after lastSeen
updateDeviceKeepsLastSeen(reg, id, updates, t, ok) ==
    IF id \notin DOMAIN reg.devices THEN reg
    ELSE saveRegistry(
           [reg EXCEPT !.devices[id] =
                Spread([reg.devices[id] EXCEPT !.lastSeen = t], updates)], ok)

updateDevice(reg, id, updates, t, ok) ==
    IF id \notin DOMAIN reg.devices THEN reg
    ELSE saveRegistry(
           [reg EXCEPT !.devices[id] =
                [Spread(reg.devices[id], updates) EXCEPT !.lastSeen = t]], ok)

\* setDeviceOnlineStatus taking effect only when the file was written
setDeviceOnlineStatusIfSaved(reg, id, online, t, ok) ==
    IF id \notin DOMAIN reg.devices THEN reg
    ELSE IF ~ok THEN [reg EXCEPT !.saves = @ + 1]
    ELSE saveRegistry(
           [reg EXCEPT !.devices[id].online = online,
                       !.devices[id].lastSeen = t], ok)

\* setDeviceOnlineStatus that can lower the flag but not raise it
setDeviceOnlineStatusOffOnly(reg, id, online, t, ok) ==
    IF id \notin DOMAIN reg.devices THEN reg
    ELSE saveRegistry(
           [reg EXCEPT !.devices[id].online = (@ /\ online),
                       !.devices[id].lastSeen = t], ok)

setDeviceOnlineStatus(reg, id, online, t, ok) ==
    IF id \notin DOMAIN reg.devices THEN reg
    ELSE saveRegistry(
           [reg EXCEPT !.devices[id].online = online,
                       !.devices[id].lastSeen = t], ok)

\* updateDeviceState that keeps the first state written (first write wins)
updateDeviceStateFirstWins(reg, id, state, t, ok) ==
    IF id \notin DOMAIN reg.devices THEN reg
    ELSE saveRegistry(
           [reg EXCEPT !.devices[id].state =
                           IF @ = NoState THEN state ELSE @,
                       !.devices[id].lastSeen = t], ok)

updateDeviceState(reg, id, state, t, ok) ==
    IF id \notin DOMAIN reg.devices THEN reg
    ELSE saveRegistry(
           [reg EXCEPT !.devices[id].state = state,
                       !.devices[id].lastSeen = t], ok)

\* A registry without devices: new Map()
EmptyMap == [i \in {} |-> NoState]

\* this.devices.set(id, device)
MapSet(map, id, device) ==
    [i \in DOMAIN map \cup {id} |-> IF i = id THEN device ELSE map[i]]

\* this.devices.delete(id)
MapDelete(map, id) == [i \in DOMAIN map \ {id} |-> map[i]]

\* A JSON null in the device list: reading its id throws a TypeError
Null == [null |-> TRUE]

\* The loop of loadRegistry over registry.devices; an entry whose id cannot
\* be read throws, which ends the loop in the catch with the map as it is
RECURSIVE loadEntries(_, _)
loadEntries(map, entries) ==
    IF entries = <<>> THEN map
    ELSE IF Head(entries) = Null THEN map
    ELSE loadEntries(MapSet(map, Head(entries).id, Head(entries)), Tail(entries))

\* loadRegistry: file.kind tells whether the file is missing, unreadable,
\* not JSON, JSON without a devices array, or JSON with the devices array
\* file.entries
loadRegistry(file) ==
    IF file.kind = "list" THEN loadEntries(EmptyMap, file.entries) ELSE EmptyMap

addDevice(reg, device, t, ok) ==
    saveRegistry(
        [reg EXCEPT !.devices =
            MapSet(@, device.id, [device EXCEPT !.lastSeen = t])], ok)

\* removeDevice saving whether or not it deleted
removeDeviceAlwaysSaves(reg, id, ok) ==
    saveRegistry([reg EXCEPT !.devices = MapDelete(@, id)], ok)

removeDevice(reg, id, ok) ==
    IF id \notin DOMAIN reg.devices THEN reg
    ELSE saveRegistry([reg EXCEPT !.devices = MapDelete(@, id)], ok)

\* What updateDevice, removeDevice, setDeviceOnlineStatus and
\* updateDeviceState return for id: whether the map held it
returned(reg, id) == IF id \in DOMAIN reg.devices THEN "true" ELSE "false"

----------------------------------------------------------------------------
(* The control surface *)

Ops == {"get", "control", "power", "brightness", "color"}

NoRes == [success |-> FALSE, data |-> <<>>, error |-> "undefined",
          status |-> 0, timestamp |-> Undef]

\* createResponse without its timestamp field
createResponseNoTimestamp(status, success, data, error, t) ==
    [success |-> success, data |-> data, error |-> error,
     status |-> status, timestamp |-> Undef]

\* createResponse, with the HTTP status beside it
createResponse(status, success, data, error, t) ==
    [success |-> success, data |-> data, error |-> error,
     status |-> status, timestamp |-> t]

\* A handler: the route (op), req.params.id (id), req.body (req), the id of
\* the device it looked up and talks to (target), the exchange it awaits
\* (stage), the commands it has sent and how the peer behaved in each
\* (sent, got), the socket each command was written to (clients), its
\* reference to a replaced registry object (held), and its response (res)
Idle == [pc |-> "idle", op |-> "none", id |-> "none", req |-> NoReq,
         target |-> "none", stage |-> "none", sent |-> <<>>, got |-> <<>>,
         clients |-> <<>>, held |-> <<>>, res |-> NoRes]

\* getDeviceController: the message of the exception, if it throws
controllerError(device) ==
    CASE device.brand = "kasa" -> "undefined"
      [] device.brand = "tuya" -> "Tuya devices not yet supported"
      [] OTHER -> "Unsupported device brand"

\* Where a handler stands after a synchronous stretch:
\*   send    - it awaits the exchange of cmd, at stage
\*   throw   - an exception reached its catch
\*   respond - it answered a validation failure (400)
\*   finish  - getState returned state: the success path
Poll == [tag |-> "send", error |-> "undefined", cmd |-> GetSysinfo,
         stage |-> "poll", state |-> NoState]

Thrown(msg) == [tag |-> "throw", error |-> msg, cmd |-> NoCmd,
                stage |-> "none", state |-> NoState]

Invalid(msg) == [tag |-> "respond", error |-> msg, cmd |-> NoCmd,
                 stage |-> "none", state |-> NoState]

Finish(state) == [tag |-> "finish", error |-> "undefined", cmd |-> NoCmd,
                  stage |-> "none", state |-> state]

\* An adapter method was called and awaited: it threw, it sent, or it
\* returned and the handler goes on to `const state = await getState()`
Awaited(r, stage) ==
    CASE r.tag = "throw" -> Thrown(r.error)
      [] r.tag = "send" -> [Poll EXCEPT !.cmd = r.cmd, !.stage = stage]
      [] OTHER -> Poll

IsNumber(x) == x # Undef /\ x # NotNum

\* POST /power, line 152
powerStateInvalid(state) == state \notin {"on", "off"}

\* the level check with `level <= 0` for `level < 0`
levelInvalidAtZero(level) == ~IsNumber(level) \/ level <= 0 \/ level > 100

\* POST /brightness, line 192
levelInvalid(level) == ~IsNumber(level) \/ level < 0 \/ level > 100

\* the RGB check without the upper bound of g
rgbInvalidNoGreenMax(color) ==
    \/ ~IsNumber(color.r) \/ ~IsNumber(color.g) \/ ~IsNumber(color.b)
    \/ color.r < 0 \/ color.r > 255
    \/ color.g < 0
    \/ color.b < 0 \/ color.b > 255

\* POST /color, lines 227-228
rgbInvalid(color) ==
    \/ ~IsNumber(color.r) \/ ~IsNumber(color.g) \/ ~IsNumber(color.b)
    \/ color.r < 0 \/ color.r > 255
    \/ color.g < 0 \/ color.g > 255
    \/ color.b < 0 \/ color.b > 255

\* POST /color, line 232
colorBrightnessInvalid(brightness) ==
    /\ brightness # Undef
    /\ (~IsNumber(brightness) \/ brightness < 0 \/ brightness > 100)

\* The handlers from their first line to their first await, for a device in
\* the registry
routeBegin(op, device, body) ==
    CASE op = "get" ->
           IF controllerError(device) # "undefined"
           THEN Thrown(controllerError(device))
           ELSE Poll
      [] op = "control" ->
           IF controllerError(device) # "undefined"
           THEN Thrown(controllerError(device))
           ELSE Awaited(controlPower(body),
                        IF body.action = "toggle" THEN "toggle_poll"
                        ELSE IF body.action \in {"on", "off"} THEN "power"
                        ELSE "light")
      [] op = "power" ->
           IF powerStateInvalid(body.state)
           THEN Invalid("State must be on or off")
           ELSE IF controllerError(device) # "undefined"
           THEN Thrown(controllerError(device))
           ELSE Awaited(IF body.state = "on" THEN turnOn ELSE turnOff, "power")
      [] op = "brightness" ->
           IF "brightness" \notin device.capabilities
           THEN Invalid("Device does not support brightness control")
           ELSE IF levelInvalid(body.level)
           THEN Invalid("Brightness level must be between 0 and 100")
           ELSE IF controllerError(device) # "undefined"
           THEN Thrown(controllerError(device))
           ELSE Awaited(setBrightness(body.level), "light")
      [] OTHER ->
           IF "color" \notin device.capabilities
           THEN Invalid("Device does not support color control")
           ELSE IF rgbInvalid(body.color)
           THEN Invalid("RGB values must be between 0 and 255")
           ELSE IF colorBrightnessInvalid(body.brightness)
           THEN Invalid("Brightness must be between 0 and 100")
           ELSE IF controllerError(device) # "undefined"
           THEN Thrown(controllerError(device))
           ELSE Awaited(setRGBColor(body.color.r, body.color.g, body.color.b,
                                    body.brightness), "light")

\* control going on to the settings after any power command
settingsFollowAlways(cmd) == TRUE

\* control, lines 378-396: after turnOn control breaks out of the switch to
\* the settings, after turnOff (action 'off', or toggle of a device that is
\* on) it returns
settingsFollow(cmd) == cmd.state = 1

\* The handlers from the settlement of their exchange to their next await
routeContinue(call, settled) ==
    LET cmd == call.sent[Len(call.sent)]
    IN  CASE ~settled.resolved -> Thrown(settled.error)
          [] call.stage = "toggle_poll" ->
               Awaited(toggleChoice(settled.response), "power")
          [] call.stage = "power" ->
               IF relayChecked(cmd, settled.response).tag = "throw"
               THEN Thrown(relayChecked(cmd, settled.response).error)
               ELSE IF call.op = "control" /\ settingsFollow(cmd)
               THEN Awaited(controlSettings(call.req), "light")
               ELSE Poll
          [] call.stage = "light" -> Poll
          [] OTHER ->
               IF getState(settled.response).thrown
               THEN Thrown(getState(settled.response).error)
               ELSE Finish(getState(settled.response).state)

----------------------------------------------------------------------------
(* The object a GET handler holds in `device`.  registry.getDevice hands   *)
(* out the registry's own object: held = <<>> says the handler's reference *)
(* is still the object in the map.  updateDevice puts a new object in the  *)
(* map; a handler that looked the device up before then holds the replaced *)
(* object, kept here as a copy tagged with the identity (grp) it shares    *)
(* with the other holders of that object.  Only the GET handler reads the  *)
(* mutable fields of its reference, so only GET handlers are tracked.      *)

Slots == 1..NumSlots

Holders(cs, c, id) ==
    {d \in Slots \ {c} :
        cs[d].pc = "wait" /\ cs[d].op = "get" /\ cs[d].target = id}

FreshGrp(cs, c, id) ==
    CHOOSE n \in 0..NumSlots :
        /\ \A d \in Holders(cs, c, id) : cs[d].held # <<>> => cs[d].held[1].grp # n
        /\ \A m \in 0..(n - 1) :
              \E d \in Holders(cs, c, id) : cs[d].held # <<>> /\ cs[d].held[1].grp = m

\* `device.f = v` for each field f of m, done by handler c through its reference
\* (the registry's object when the reference is live: no lastSeen, no save)
MutateHeld(cs, reg, c, m) ==
    LET call == cs[c]
    IN  IF call.held = <<>>
        THEN [calls |-> cs,
              reg |-> [reg EXCEPT !.devices[call.target] = Spread(@, m)]]
        ELSE [calls |->
                [d \in Slots |->
                    IF /\ d = c \/ d \in Holders(cs, c, call.target)
                       /\ cs[d].held # <<>>
                       /\ cs[d].held[1].grp = call.held[1].grp
                    THEN [cs[d] EXCEPT !.held[1].device = Spread(@, m)]
                    ELSE cs[d]],
              reg |-> reg]

\* The registry replaces the object of id: the other handlers whose reference
\* was live now hold the replaced object
Detach(cs, reg, c, id) ==
    [d \in Slots |->
        IF d \in Holders(cs, c, id) /\ cs[d].held = <<>>
        THEN [cs[d] EXCEPT !.held = <<[grp |-> FreshGrp(cs, c, id),
                                       device |-> reg.devices[id]]>>]
        ELSE cs[d]]

HeldDevice(cs, reg, c) ==
    IF cs[c].held = <<>> THEN reg.devices[cs[c].target] ELSE cs[c].held[1].device

Done(call, res) == [call EXCEPT !.pc = "done", !.res = res, !.held = <<>>]

----------------------------------------------------------------------------
(* What a handler does with the outcome r of a synchronous stretch, at     *)
(* time t; w1 and w2 tell whether its first and second snapshot write      *)
(* succeed.  The result is the handlers and the registry afterwards.       *)

\* GET /api/devices/:id, lines 85-97
resolveGet(cs, reg, c, r, t, w1) ==
    LET id == cs[c].target
    IN  IF r.tag = "finish"
        THEN LET m == MutateHeld(cs, reg, c, [state |-> r.state, online |-> TRUE])
                 cs2 == Detach(m.calls, m.reg, c, id)
                 reg2 == updateDevice(m.reg, id,
                                      [state |-> r.state, online |-> TRUE], t, w1)
             IN  [calls |-> [cs2 EXCEPT ![c] =
                     Done(@, createResponse(200, TRUE,
                                 <<HeldDevice(m.calls, m.reg, c)>>, "undefined", t))],
                  reg |-> reg2]
        ELSE LET m == MutateHeld(cs, reg, c, [online |-> FALSE])
                 reg2 == setDeviceOnlineStatus(m.reg, id, FALSE, t, w1)
             IN  [calls |-> [m.calls EXCEPT ![c] =
                     Done(@, createResponse(200, TRUE,
                                 <<HeldDevice(m.calls, reg2, c)>>, "undefined", t))],
                  reg |-> reg2]

\* The POST handlers without `registry.setDeviceOnlineStatus(device.id, true)`
resolvePostStateOnly(cs, reg, c, r, t, w1, w2) ==
    LET id == cs[c].target
    IN  IF r.tag = "finish"
        THEN [calls |-> [cs EXCEPT ![c] =
                 Done(@, createResponse(200, TRUE, <<[state |-> r.state]>>,
                                        "undefined", t))],
              reg |-> updateDeviceState(reg, id, r.state, t, w1)]
        ELSE [calls |-> [cs EXCEPT ![c] =
                 Done(@, createResponse(500, FALSE, <<>>, r.error, t))],
              reg |-> setDeviceOnlineStatus(reg, cs[c].id, FALSE, t, w1)]

\* The POST handlers: lines 128-140, 163-176, 198-211, 238-252
resolvePost(cs, reg, c, r, t, w1, w2) ==
    LET id == cs[c].target
    IN  IF r.tag = "finish"
        THEN [calls |-> [cs EXCEPT ![c] =
                 Done(@, createResponse(200, TRUE, <<[state |-> r.state]>>,
                                        "undefined", t))],
              reg |-> setDeviceOnlineStatus(
                          updateDeviceState(reg, id, r.state, t, w1),
                          id, TRUE, t, w2)]
        ELSE [calls |-> [cs EXCEPT ![c] =
                 Done(@, createResponse(500, FALSE, <<>>, r.error, t))],
              reg |-> setDeviceOnlineStatus(reg, cs[c].id, FALSE, t, w1)]

\* One socket kept by the adapter and used by every call of sendCommand
clientShared(c, n) == [by |-> 0, no |-> 0]

\* `new net.Socket()` in sendCommand: the object made for the n-th command of
\* handler c
client(c, n) == [by |-> c, no |-> n]

resolve(cs, reg, c, r, t, w1, w2) ==
    CASE r.tag = "send" ->
           [calls |-> [cs EXCEPT ![c].pc = "wait", ![c].stage = r.stage,
                                 ![c].sent = Append(@, r.cmd),
                                 ![c].clients = Append(@, client(c, Len(@) + 1))],
            reg |-> reg]
      [] r.tag = "respond" ->
           [calls |-> [cs EXCEPT ![c] =
                Done(@, createResponse(400, FALSE, <<>>, r.error, t))],
            reg |-> reg]
      [] cs[c].op = "get" -> resolveGet(cs, reg, c, r, t, w1)
      [] OTHER -> resolvePost(cs, reg, c, r, t, w1, w2)

----------------------------------------------------------------------------
(* The registry file at startup, the devices on the network, the requests *)

Device(id, brand, capabilities, online) ==
    [id |-> id, brand |-> brand, capabilities |-> capabilities,
     state |-> NoState, online |-> online, lastSeen |-> 0]

\* A colour bulb (the spec's device A), a plug, and a device of a brand that
\* has no adapter
Registered ==
    [i \in {"bulb", "plug", "tuya1"} |->
        CASE i = "bulb" -> Device(i, "kasa", {"power", "brightness", "color"}, TRUE)
          [] i = "plug" -> Device(i, "kasa", {"power"}, FALSE)
          [] OTHER -> Device(i, "tuya", {"power", "brightness", "color"}, TRUE)]

\* The ids a request may name: the registered ones and one that is unknown
RequestIds == DOMAIN Registered \cup {"ghost"}

Network ==
    [i \in {"bulb", "plug"} |->
        IF i = "bulb"
        THEN [kind |-> "bulb", on |-> 0, brightness |-> 100, hue |-> 0,
              saturation |-> 0, color_temp |-> 2700]
        ELSE [kind |-> "plug", on |-> 1, brightness |-> Undef, hue |-> Undef,
              saturation |-> Undef, color_temp |-> Undef]]

Rgb(r, g, b) == [r |-> r, g |-> g, b |-> b]

Request(op, id, body) == [op |-> op, id |-> id, body |-> body]

\* The settings a unified control request carries besides its action: none,
\* each field alone in and out of range, and an out-of-range brightness
\* beside a valid colour, hue/saturation or colour temperature
ControlSettings ==
    {NoReq,
     [NoReq EXCEPT !.brightness = 50],
     [NoReq EXCEPT !.brightness = 101],
     [NoReq EXCEPT !.color = Rgb(255, 0, 0)],
     [NoReq EXCEPT !.color = Rgb(256, 0, 0)],
     [NoReq EXCEPT !.color = Rgb(0, 255, 0), !.brightness = 101],
     [NoReq EXCEPT !.hue = 120, !.saturation = 100],
     [NoReq EXCEPT !.hue = 361, !.saturation = 100],
     [NoReq EXCEPT !.hue = 120, !.saturation = 101],
     [NoReq EXCEPT !.hue = 120, !.saturation = 100, !.brightness = -1],
     [NoReq EXCEPT !.color_temp = 2700],
     [NoReq EXCEPT !.color_temp = 9001],
     [NoReq EXCEPT !.color_temp = 2700, !.brightness = 101]}

Bodies(op) ==
    CASE op = "get" -> {NoReq}
      [] op = "control" ->
           {[b EXCEPT !.action = a] : b \in ControlSettings,
                                      a \in {"on", "off", "toggle"}}
      [] op = "power" ->
           {[NoReq EXCEPT !.state = v] : v \in {"on", "off", "dim", "undefined"}}
      [] op = "brightness" ->
           {[NoReq EXCEPT !.level = v] : v \in {-1, 0, 50, 100, 101, NotNum, Undef}}
      [] OTHER ->
           {[NoReq EXCEPT !.color = c, !.brightness = v] :
                c \in {Rgb(255, 0, 0), Rgb(0, 255, 0), Rgb(-1, 0, 0),
                       Rgb(0, 256, 0), Rgb(0, 0, NotNum), NoColor},
                v \in {Undef, 50, 101, -1, NotNum}}

\* The wide request alphabet: every route, every id, every body above
WideRequests ==
    UNION {{Request(op, id, body) : id \in RequestIds, body \in Bodies(op)} :
              op \in Ops}

\* The narrow request alphabet, for requests that overlap
Requests ==
    {Request("get", id, NoReq) : id \in {"bulb", "plug", "ghost"}}
    \cup {Request("control", "bulb", [b EXCEPT !.action = a]) :
             a \in {"on", "off", "toggle"},
             b \in {NoReq, [NoReq EXCEPT !.brightness = 50]}}
    \cup {Request("control", "bulb", [NoReq EXCEPT !.action = "on", !.brightness = 101]),
          Request("control", "plug", [NoReq EXCEPT !.action = "on", !.brightness = 50]),
          Request("control", "plug", [NoReq EXCEPT !.action = "toggle"]),
          Request("control", "ghost", [NoReq EXCEPT !.action = "toggle"]),
          Request("control", "tuya1", [NoReq EXCEPT !.action = "on"])}
    \cup {Request("power", "bulb", [NoReq EXCEPT !.state = v]) : v \in {"on", "off"}}
    \cup {Request("power", "plug", [NoReq EXCEPT !.state = "off"]),
          Request("power", "ghost", [NoReq EXCEPT !.state = "dim"])}
    \cup {Request("brightness", "bulb", [NoReq EXCEPT !.level = 50]),
          Request("brightness", "plug", [NoReq EXCEPT !.level = 50]),
          Request("brightness", "ghost", [NoReq EXCEPT !.level = 101])}
    \cup {Request("color", "bulb", [NoReq EXCEPT !.color = Rgb(0, 255, 0)]),
          Request("color", "ghost", [NoReq EXCEPT !.color = Rgb(0, 256, 0)])}

\* No call of a registry method yet.  Of a call: its number, the method, its
\* arguments, what it returned, and whether its snapshot write was not
\* attempted, succeeded or failed (saved)
NoApi == [n |-> 0, op |-> "none", id |-> "none", arg |-> <<>>,
          ret |-> "undefined", saved |-> "none"]

\* No call of sendCommand under observation.  In a call, socket is connecting, connected,
\* destroyed (by sendCommand) or closed (by the peer); promise is pending,
\* resolved or rejected; settles counts the calls of resolve and reject
NoExchange == [socket |-> "none", cmd |-> <<>>, written |-> <<>>,
               reply |-> <<>>, data |-> <<>>, decrypted |-> <<>>,
               promise |-> "pending", error |-> "undefined", settles |-> 0]

----------------------------------------------------------------------------
(* The state machine *)

Init ==
    /\ devices = Registered
    /\ snapshot = Registered
    /\ saves = 0
    /\ world = Network
    /\ calls = [c \in Slots |-> Idle]
    /\ started = 0
    /\ now = 1
    /\ api = NoApi
    /\ exchange = NoExchange

\* A request for op on id with body arrives and its handler runs up to its
\* first await, or to its response
Start(c, op, id, body, w1) ==
    /\ calls[c].pc # "wait"
    /\ \A d \in 1..(c - 1) : calls[d].pc = "wait"
    /\ started' = started + 1
    /\ LET device == getDevice(Reg, id)
           cs == [calls EXCEPT ![c] =
                    [Idle EXCEPT !.op = op, !.id = id, !.req = body,
                        !.target = IF device = <<>> THEN "none" ELSE device[1].id]]
       IN  IF device = <<>>
           THEN /\ calls' = [cs EXCEPT ![c] =
                        Done(@, createResponse(404, FALSE, <<>>,
                                               "Device not found", now))]
                /\ UNCHANGED <<devices, snapshot, saves>>
           ELSE LET out == resolve(cs, Reg, c, routeBegin(op, device[1], body),
                                   now, w1, w1)
                IN  /\ calls' = out.calls
                      /\ devices' = out.reg.devices
                      /\ snapshot' = out.reg.snapshot
                      /\ saves' = out.reg.saves
    /\ UNCHANGED <<world, now, api, exchange>>

\* The exchange handler c waits for settles, the peer behaving as given, and
\* the handler runs up to its next await, or to its response
Settle(c, behaviour, w1, w2) ==
    /\ calls[c].pc = "wait"
    /\ LET call == calls[c]
           cmd == call.sent[Len(call.sent)]
           settled == sendCommand(world[call.target], cmd, behaviour)
           cs == [calls EXCEPT ![c].got = Append(@, behaviour)]
           out == resolve(cs, Reg, c, routeContinue(call, settled),
                          now + 1, w1, w2)
       IN  /\ world' = IF behaviour = "ok"
                       THEN [world EXCEPT ![call.target] = Obey(@, cmd)]
                       ELSE world
           /\ calls' = out.calls
           /\ devices' = out.reg.devices
           /\ snapshot' = out.reg.snapshot
           /\ saves' = out.reg.saves
    /\ now' = now + 1
    /\ UNCHANGED <<started, api, exchange>>

\* Requests of the narrow alphabet, which may overlap; the peer answers or
\* stays silent, and the registry file is writable
Next ==
    \/ \E c \in Slots, q \in Requests :
          /\ started < MaxCalls
          /\ Start(c, q.op, q.id, q.body, TRUE)
    \/ \E c \in Slots, behaviour \in NarrowBehaviours :
          Settle(c, behaviour, TRUE, TRUE)

Spec == Init /\ [][Next]_vars

\* Requests of the wide alphabet, one at a time; a write of the registry
\* file may fail
NextWide ==
    \/ \E c \in Slots, q \in WideRequests, w1 \in BOOLEAN :
          /\ started < MaxWide
          /\ \A d \in Slots : calls[d].pc # "wait"
          /\ Start(c, q.op, q.id, q.body, w1)
    \/ \E c \in Slots, behaviour \in Behaviours, w1, w2 \in BOOLEAN :
          Settle(c, behaviour, w1, w2)

SpecWide == Init /\ [][NextWide]_vars

\* Reads of the bulb that overlap, and a power request between them
ReadRequests ==
    {Request("get", "bulb", NoReq),
     Request("power", "bulb", [NoReq EXCEPT !.state = "on"])}

\* Three requests of ReadRequests; the peer answers or stays silent
NextReads ==
    \/ \E c \in Slots, q \in ReadRequests :
          /\ started < MaxReads
          /\ Start(c, q.op, q.id, q.body, TRUE)
    \/ \E c \in Slots, behaviour \in {"ok", "timeout"} :
          Settle(c, behaviour, TRUE, TRUE)

SpecReads == Init /\ [][NextReads]_vars

----------------------------------------------------------------------------
(* The registry on its own: constructed from a registry file, then called  *)
(* through its methods                                                     *)

\* The same id as the bulb, registered as another device
OtherBulb == Device("bulb", "kasa", {"power"}, FALSE)

\* Registry files: missing, unreadable, not JSON, JSON without a devices
\* array, and JSON whose devices array holds devices and nulls
Files ==
    {[kind |-> k, entries |-> <<>>] :
        k \in {"missing", "unreadable", "invalid_json", "no_list"}}
    \cup {[kind |-> "list", entries |-> e] :
             e \in {<<>>,
                    <<Registered["bulb"]>>,
                    <<Registered["bulb"], Registered["plug"]>>,
                    <<Registered["bulb"], OtherBulb>>,
                    <<Null, Registered["bulb"]>>,
                    <<Registered["bulb"], Null>>,
                    <<Registered["bulb"], Null, Registered["plug"]>>}}

\* The ids the methods are called with
RegistryIds == {"bulb", "plug", "ghost"}

\* Partial<Device>: the updates handed to updateDevice
PartialUpdates ==
    {[online |-> FALSE],
     [lastSeen |-> 99],
     [id |-> "plug"],
     [state |-> [NoState EXCEPT !.power = "on"], online |-> TRUE]}

InitRegistry ==
    /\ \E file \in Files :
          /\ devices = loadRegistry(file)
          /\ snapshot = file
    /\ saves = 0
    /\ world = Network
    /\ calls = [c \in Slots |-> Idle]
    /\ started = 0
    /\ now = 1
    /\ api = NoApi
    /\ exchange = NoExchange

\* A method of the registry was called at time now and left the registry reg
Called(op, id, arg, ret, reg, ok) ==
    /\ api.n < MaxOps
    /\ api' = [n |-> api.n + 1, op |-> op, id |-> id, arg |-> arg, ret |-> ret,
               saved |-> IF reg.saves = saves THEN "none"
                         ELSE IF ok THEN "ok" ELSE "failed"]
    /\ devices' = reg.devices
    /\ snapshot' = reg.snapshot
    /\ saves' = reg.saves
    /\ now' = now + 1
    /\ UNCHANGED <<world, calls, started, exchange>>

CallAddDevice(device, ok) ==
    Called("addDevice", device.id, device, "undefined",
           addDevice(Reg, device, now, ok), ok)

CallUpdateDevice(id, updates, ok) ==
    Called("updateDevice", id, updates, returned(Reg, id),
           updateDevice(Reg, id, updates, now, ok), ok)

CallRemoveDevice(id, ok) ==
    Called("removeDevice", id, <<>>, returned(Reg, id),
           removeDevice(Reg, id, ok), ok)

CallSetDeviceOnlineStatus(id, online, ok) ==
    Called("setDeviceOnlineStatus", id, online, returned(Reg, id),
           setDeviceOnlineStatus(Reg, id, online, now, ok), ok)

CallUpdateDeviceState(id, state, ok) ==
    Called("updateDeviceState", id, state, returned(Reg, id),
           updateDeviceState(Reg, id, state, now, ok), ok)

NextRegistry ==
    \/ \E device \in {Registered["bulb"], Registered["plug"], OtherBulb},
          ok \in BOOLEAN : CallAddDevice(device, ok)
    \/ \E id \in RegistryIds, updates \in PartialUpdates, ok \in BOOLEAN :
          CallUpdateDevice(id, updates, ok)
    \/ \E id \in RegistryIds, ok \in BOOLEAN : CallRemoveDevice(id, ok)
    \/ \E id \in RegistryIds, online \in BOOLEAN, ok \in BOOLEAN :
          CallSetDeviceOnlineStatus(id, online, ok)
    \/ \E id \in RegistryIds, ok \in BOOLEAN,
          state \in {NoState, [NoState EXCEPT !.power = "off"]} :
          CallUpdateDeviceState(id, state, ok)

SpecRegistry == InitRegistry /\ [][NextRegistry]_vars

----------------------------------------------------------------------------
(* One call of sendCommand at its socket: the events of the connection and *)
(* what the three handlers of sendCommand do with them                     *)

\* The char codes of the texts: NUL, the braces, the first key, 0xFF
Chars == {0, 123, 125, 171, 255}

RECURSIVE TextsOf(_)
TextsOf(n) ==
    IF n = 0 THEN {<<>>}
    ELSE TextsOf(n - 1) \cup
         {Append(t, ch) : t \in {u \in TextsOf(n - 1) : Len(u) = n - 1},
                          ch \in Chars}

\* The texts a command serialises to and a peer answers with
Texts == TextsOf(MaxText)

\* JSON.parse returns for the text {} and throws for the other texts
parses(text) == text = <<123, 125>>

InitExchange ==
    /\ devices = Registered
    /\ snapshot = Registered
    /\ saves = 0
    /\ world = Network
    /\ calls = [c \in Slots |-> Idle]
    /\ started = 0
    /\ now = 1
    /\ api = NoApi
    /\ \E cmd \in Texts \ {<<>>} :
          exchange = [NoExchange EXCEPT !.socket = "connecting", !.cmd = cmd]

Live == exchange.socket \in {"connecting", "connected"}

\* resolve(value) or reject(error): only the first call settles the promise
settle(x, promise, error) ==
    [x EXCEPT !.promise = IF @ = "pending" THEN promise ELSE @,
              !.error = IF x.promise = "pending" THEN error ELSE @,
              !.settles = @ + 1]

\* the connect callback: client.write(this.encrypt(cmd))
OnConnect ==
    /\ exchange.socket = "connecting"
    /\ exchange' = [exchange EXCEPT !.socket = "connected",
                                     !.written = encrypt(exchange.cmd)]
    /\ UNCHANGED <<devices, snapshot, saves, world, calls, started, now, api>>

\* 'data': the peer sent the text reply under the cipher; the handler
\* decrypts and parses it, destroys the socket and resolves or rejects
OnData(reply) ==
    /\ exchange.socket = "connected"
    /\ LET data == encrypt(reply)
           decrypted == decrypt(data)
           x == [exchange EXCEPT !.reply = reply, !.data = data,
                                 !.decrypted = decrypted,
                                 !.socket = "destroyed"]
       IN  exchange' = IF parses(decrypted)
                       THEN settle(x, "resolved", "undefined")
                       ELSE settle(x, "rejected", "Failed to parse response")
    /\ UNCHANGED <<devices, snapshot, saves, world, calls, started, now, api>>

\* 'error': the connection was refused or reset
OnError ==
    /\ Live
    /\ exchange' = settle([exchange EXCEPT !.socket = "destroyed"],
                           "rejected", "Connection error")
    /\ UNCHANGED <<devices, snapshot, saves, world, calls, started, now, api>>

\* 'timeout' with a handler that rejects and leaves the socket open
OnTimeoutKeepsSocket ==
    /\ Live
    /\ exchange' = settle(exchange, "rejected", "Connection timeout")
    /\ UNCHANGED <<devices, snapshot, saves, world, calls, started, now, api>>

\* 'timeout': the socket was idle for this.timeout
OnTimeout ==
    /\ Live
    /\ exchange' = settle([exchange EXCEPT !.socket = "destroyed"],
                           "rejected", "Connection timeout")
    /\ UNCHANGED <<devices, snapshot, saves, world, calls, started, now, api>>

\* The peer closes the connection without sending data: 'end' and 'close',
\* for which sendCommand registers no handler; the closed socket has no
\* timer any more
PeerCloses ==
    /\ exchange.socket = "connected"
    /\ exchange' = [exchange EXCEPT !.socket = "closed"]
    /\ UNCHANGED <<devices, snapshot, saves, world, calls, started, now, api>>

NextExchange ==
    \/ OnConnect
    \/ \E reply \in Texts : OnData(reply)
    \/ OnError
    \/ OnTimeout
    \/ PeerCloses

SpecExchange == InitExchange /\ [][NextExchange]_vars

\* Calls of the handlers counted after the socket was destroyed
MaxSettles == 2

\* A 'data' event delivered although the socket is destroyed: the handler
\* parses, destroys again and calls resolve or reject again.  reply, data and
\* decrypted stay those of the event the promise was settled with
LateData(reply) ==
    /\ exchange.socket = "destroyed"
    /\ exchange.settles < MaxSettles
    /\ exchange' = IF parses(decrypt(encrypt(reply)))
                   THEN settle(exchange, "resolved", "undefined")
                   ELSE settle(exchange, "rejected", "Failed to parse response")
    /\ UNCHANGED <<devices, snapshot, saves, world, calls, started, now, api>>

\* An 'error' event delivered although the socket is destroyed
LateError ==
    /\ exchange.socket = "destroyed"
    /\ exchange.settles < MaxSettles
    /\ exchange' = settle(exchange, "rejected", "Connection error")
    /\ UNCHANGED <<devices, snapshot, saves, world, calls, started, now, api>>

\* A 'timeout' event delivered although the socket is destroyed
LateTimeout ==
    /\ exchange.socket = "destroyed"
    /\ exchange.settles < MaxSettles
    /\ exchange' = settle(exchange, "rejected", "Connection timeout")
    /\ UNCHANGED <<devices, snapshot, saves, world, calls, started, now, api>>

\* The exchange with every event also delivered to the handlers of a
\* destroyed socket: no more than the runtime can do, since destroy() ends
\* the I/O of the socket and clears its timer
NextExchangeLate ==
    \/ OnConnect
    \/ \E reply \in Texts : OnData(reply)
    \/ OnError
    \/ OnTimeout
    \/ PeerCloses
    \/ \E reply \in {<<123, 125>>, <<123>>} : LateData(reply)
    \/ LateError
    \/ LateTimeout

SpecExchangeLate == InitExchange /\ [][NextExchangeLate]_vars

----------------------------------------------------------------------------
(* The registry's queries by name and its statistics, on registries whose  *)
(* devices carry a name, an alias, a type and a room.  Names, aliases and  *)
(* ids are texts: sequences of characters.                                 *)

MaxName == 2

\* The characters of the texts: lower case, upper case, a digit, and one
\* that is neither letter nor digit
NameChars == {"a", "b", "A", "1", "-"}

toLowerCase(ch) == IF ch = "A" THEN "a" ELSE ch

\* [a-z0-9]
IsAlphaNumeric(ch) == ch \in {"a", "b", "1"}

\* text.toLowerCase().replace(/[^a-z0-9]/g, '')
normalize(text) ==
    SelectSeq([i \in 1..Len(text) |-> toLowerCase(text[i])], IsAlphaNumeric)

\* String.prototype.includes
includes(text, part) ==
    \E i \in 0..(Len(text) - Len(part)) :
        SubSeq(text, i + 1, i + Len(part)) = part

\* The callback of find in getDeviceByName; an alias is <<>> when the device
\* has none, else <<text>>
nameMatches(device, name) ==
    LET normalizedName == normalize(name)
        deviceName == normalize(device.name)
        deviceAlias == IF device.alias = <<>> THEN <<>>
                       ELSE normalize(device.alias[1])
        deviceId == normalize(device.id)
    IN  \/ includes(deviceName, normalizedName)
        \/ includes(deviceAlias, normalizedName)
        \/ includes(deviceId, normalizedName)
        \/ includes(normalizedName, deviceName)
        \/ includes(normalizedName, deviceAlias)
        \/ includes(normalizedName, deviceId)

\* Array.prototype.find over the devices in a row: <<device>> for the first
\* that matches, <<>> for undefined
RECURSIVE getDeviceByName(_, _)
getDeviceByName(entries, name) ==
    IF entries = <<>> THEN <<>>
    ELSE IF nameMatches(Head(entries), name) THEN <<Head(entries)>>
    ELSE getDeviceByName(Tail(entries), name)

\* The property names a `{}` inherits from Object.prototype, as far as the
\* rooms of the model can name them
Inherited == {"constructor"}

\* obj[key] of a Record made as `{}`: the own count, undefined (0 here, as
\* it only feeds `|| 0`), or the inherited member
Lookup(obj, key) ==
    IF key \in DOMAIN obj THEN obj[key]
    ELSE IF key \in Inherited THEN NotNum
    ELSE 0

\* obj[key] = (obj[key] || 0) + 1; an inherited function or a string is
\* truthy and `+ 1` appends to its text: not a number
Count(obj, key) ==
    MapSet(obj, key, IF Lookup(obj, key) = NotNum THEN NotNum
                     ELSE Lookup(obj, key) + 1)

\* device.online === value for a boolean value; a device object that has no
\* `online` property (the field is optional) is equal to neither
onlineIs(device, value) ==
    "online" \in DOMAIN device /\ device.online = value

\* getOnlineDevices: the devices whose online is not false
getOnlineDevices(entries) ==
    SelectSeq(entries, LAMBDA device : ~onlineIs(device, FALSE))

\* String.prototype.toLowerCase over the room names that occur
roomToLowerCase(room) ==
    CASE room = "Kitchen" -> "kitchen"
      [] OTHER -> room

\* No query parameter
NoQuery == [room |-> "undefined", type |-> "undefined",
            brand |-> "undefined", online |-> "undefined"]

\* GET /api/devices: the filters of the query, each applied if its parameter
\* is there (room, type, brand: and not empty)
listDevices(entries, query) ==
    LET byRoom ==
            IF query.room \in {"undefined", ""} THEN entries
            ELSE SelectSeq(entries, LAMBDA d :
                     /\ d.room # "undefined"
                     /\ roomToLowerCase(d.room) = roomToLowerCase(query.room))
        byType ==
            IF query.type \in {"undefined", ""} THEN byRoom
            ELSE SelectSeq(byRoom, LAMBDA d : d.type = query.type)
        byBrand ==
            IF query.brand \in {"undefined", ""} THEN byType
            ELSE SelectSeq(byType, LAMBDA d : d.brand = query.brand)
    IN  IF query.online = "undefined" THEN byBrand
        ELSE SelectSeq(byBrand, LAMBDA d : onlineIs(d, query.online = "true"))

NoStats == [total |-> 0, byType |-> EmptyMap, byBrand |-> EmptyMap,
            byRoom |-> EmptyMap, online |-> 0, offline |-> 0]

\* The loop of getStats
RECURSIVE countDevices(_, _)
countDevices(stats, entries) ==
    IF entries = <<>> THEN stats
    ELSE LET device == Head(entries)
             room == IF device.room \in {"undefined", ""} THEN "unknown"
                     ELSE device.room
         IN  countDevices(
                 [stats EXCEPT
                     !.byType = Count(@, device.type),
                     !.byBrand = Count(@, device.brand),
                     !.byRoom = Count(@, room),
                     !.online = IF onlineIs(device, FALSE) THEN @ ELSE @ + 1,
                     !.offline = IF onlineIs(device, FALSE) THEN @ + 1 ELSE @],
                 Tail(entries))

getStats(entries) ==
    countDevices([NoStats EXCEPT !.total = Len(entries)], entries)

\* A device with the fields the queries read
Named(id, name, alias, type, brand, room, online) ==
    Spread(Device(id, brand, {"power"}, online),
           [name |-> name, alias |-> alias, type |-> type, room |-> room])

\* A device object without the optional property `online`
Discovered(device) ==
    [field \in DOMAIN device \ {"online"} |-> device[field]]

\* Devices to register: with an alias, without one, with a name that
\* normalizes to nothing, in a room named like a member of Object.prototype,
\* and one that was never marked online or offline
Catalogue ==
    {Named(<<"a", "1">>, <<"A", "-", "b">>, <<<<"b", "b">>>>,
           "light", "kasa", "kitchen", TRUE),
     Named(<<"b", "a">>, <<"b">>, <<>>, "plug", "kasa", "undefined", FALSE),
     Named(<<"1">>, <<"-">>, <<<<"A">>>>, "light", "tuya", "kitchen", FALSE),
     Named(<<"b", "1">>, <<"a", "a">>, <<<<"1", "1">>>>,
           "plug", "kasa", "constructor", TRUE),
     Named(<<"1", "1">>, <<"b", "b">>, <<<<"a">>>>, "switch", "kasa", "unknown", TRUE),
     Discovered(Named(<<"a", "a">>, <<"1", "a">>, <<<<"b">>>>,
                      "light", "kasa", "Kitchen", TRUE))}

RECURSIVE NamesOf(_)
NamesOf(n) ==
    IF n = 0 THEN {<<>>}
    ELSE NamesOf(n - 1)
         \cup {Append(text, ch) : text \in NamesOf(n - 1), ch \in NameChars}

\* The names asked for
Names == NamesOf(MaxName)

InitQueries ==
    /\ \E first \in Catalogue :
          /\ devices = loadRegistry([kind |-> "list", entries |-> <<first>>])
          /\ snapshot = [kind |-> "list", entries |-> <<first>>]
    /\ saves = 0
    /\ world = Network
    /\ calls = [c \in Slots |-> Idle]
    /\ started = 0
    /\ now = 1
    /\ api = NoApi
    /\ exchange = NoExchange

CallGetDeviceByName(name) ==
    \E entries \in values(devices) :
        Called("getDeviceByName", "none", name,
               getDeviceByName(entries, name), Reg, TRUE)

CallGetStats ==
    \E entries \in values(devices) :
        Called("getStats", "none", <<>>, getStats(entries), Reg, TRUE)

CallGetOnlineDevices ==
    \E entries \in values(devices) :
        Called("getOnlineDevices", "none", <<>>, getOnlineDevices(entries),
               Reg, TRUE)

\* The queries of GET /api/devices
Queries ==
    {[room |-> room, type |-> type, brand |-> brand, online |-> online] :
        room \in {"undefined", "kitchen"}, type \in {"undefined", "light"},
        brand \in {"undefined"}, online \in {"undefined", "true", "false"}}
    \cup {[NoQuery EXCEPT !.brand = "kasa"], [NoQuery EXCEPT !.online = "1"]}

CallListDevices(query) ==
    \E entries \in values(devices) :
        Called("listDevices", "none", query, listDevices(entries, query),
               Reg, TRUE)

\* Devices are added and removed, and the registry is asked
NextQueries ==
    \/ \E device \in Catalogue, ok \in BOOLEAN : CallAddDevice(device, ok)
    \/ \E device \in Catalogue : CallRemoveDevice(device.id, TRUE)
    \/ \E name \in Names : CallGetDeviceByName(name)
    \/ CallGetStats
    \/ CallGetOnlineDevices
    \/ \E query \in Queries : CallListDevices(query)

SpecQueries == InitQueries /\ [][NextQueries]_vars

----------------------------------------------------------------------------
(* Colour requests on the bulb, for the conversion from RGB *)

\* Channel values: the ends of the range, values next to them, and values
\* whose hue or saturation ends in one half
ColorLevels == {0, 1, 13, 40, 128, 254, 255}

ColorRequests ==
    {Request("color", "bulb", [NoReq EXCEPT !.color = Rgb(r, g, b)]) :
        r \in ColorLevels, g \in ColorLevels, b \in ColorLevels}

\* One colour request; the bulb answers or stays silent
NextColor ==
    \/ \E c \in Slots, q \in ColorRequests :
          /\ started < MaxWide
          /\ Start(c, q.op, q.id, q.body, TRUE)
    \/ \E c \in Slots, behaviour \in {"ok", "timeout"} :
          Settle(c, behaviour, TRUE, TRUE)

SpecColor == Init /\ [][NextColor]_vars

----------------------------------------------------------------------------
(* Unified control requests on the bulb that combine the settings *)

\* Every combination of a colour, a hue, a saturation, a colour temperature
\* (absent, zero, in range) and a brightness (absent, zero, in range)
SettingsRequests ==
    {Request("control", "bulb",
             [NoReq EXCEPT !.action = a, !.color = c, !.hue = h,
                           !.saturation = s, !.color_temp = ct,
                           !.brightness = b]) :
        a \in {"on", "off", "toggle"},
        c \in {NoColor, Rgb(255, 0, 0)},
        h \in {Undef, 120},
        s \in {Undef, 100},
        ct \in {Undef, 0, 2700},
        b \in {Undef, 0, 50}}

\* One such request; the bulb answers or stays silent
NextSettings ==
    \/ \E c \in Slots, q \in SettingsRequests :
          /\ started < MaxWide
          /\ Start(c, q.op, q.id, q.body, TRUE)
    \/ \E c \in Slots, behaviour \in {"ok", "timeout"} :
          Settle(c, behaviour, TRUE, TRUE)

SpecSettings == Init /\ [][NextSettings]_vars

----------------------------------------------------------------------------
(* Properties *)

PostOps == {"control", "power", "brightness", "color"}

\* In this step a request arrived and its handler took slot c
StartedIn(c) ==
    /\ started' = started + 1
    /\ calls[c].pc # "wait"
    /\ \A d \in 1..(c - 1) : calls[d].pc = "wait"

\* In this step the exchange of handler c settled
SettledIn(c) ==
    /\ calls[c].pc = "wait"
    /\ Len(calls'[c].got) = Len(calls[c].got) + 1

\* In this step handler c produced its response
RespondsIn(c) == (StartedIn(c) \/ SettledIn(c)) /\ calls'[c].pc = "done"

Registry == <<devices, snapshot, saves>>

Within(x, lo, hi) == x >= lo /\ x <= hi

Last(seq) == seq[Len(seq)]

\* C1: a request of any route that names an id the registry does not hold is
\* answered at once with the failure 'Device not found', has sent no command,
\* and leaves every device of the registry, the snapshot and the number of
\* snapshot writes as they were.
C1_UnknownIdNotFound ==
    [][\A c \in Slots :
          StartedIn(c) /\ calls'[c].id \notin DOMAIN devices =>
             /\ calls'[c].pc = "done"
             /\ calls'[c].res.success = FALSE
             /\ calls'[c].res.error = "Device not found"
             /\ calls'[c].res.data = <<>>
             /\ calls'[c].sent = <<>>
             /\ Registry' = Registry]_vars

\* a colour request for an unknown id was answered after the registry had
\* been written by another request
C1_Witness ==
    \E c \in Slots :
        /\ calls[c].pc = "done" /\ calls[c].op = "color"
        /\ calls[c].id \notin DOMAIN devices
        /\ calls[c].res.error = "Device not found"
        /\ saves > 0

\* C2: when a command or poll of a POST route fails (connection error,
\* timeout, unparseable answer, or an answer with a non-zero err_code), the
\* response is a failure and, as it is produced, the device is offline in the
\* registry and its lastSeen has advanced.
C2_ExchangeFailureMarksOffline ==
    [][\A c \in Slots :
          /\ RespondsIn(c) /\ calls'[c].op \in PostOps
          /\ \E i \in 1..Len(calls'[c].got) : calls'[c].got[i] # "ok"
          => /\ ~calls'[c].res.success
             /\ ~devices'[calls'[c].id].online
             /\ devices'[calls'[c].id].lastSeen > devices[calls'[c].id].lastSeen]_vars

\* C3: when a POST route answers success, its last exchange was a state poll
\* that followed a command to the same device, and as the response is
\* produced the registry holds the polled state for the device and has it
\* online.
C3_SuccessWritesPolledState ==
    [][\A c \in Slots :
          RespondsIn(c) /\ calls'[c].op \in PostOps /\ calls'[c].res.success =>
             LET call == calls'[c]
                 n == Len(call.sent)
                 polled == getState(sendCommand(world[call.target], GetSysinfo,
                                                Last(call.got)).response).state
             IN  /\ n >= 2 /\ Len(call.got) = n
                 /\ call.sent[n] = GetSysinfo
                 /\ call.sent[n - 1].kind \in {"set_relay_state",
                                               "transition_light_state"}
                 /\ call.res.data = <<[state |-> polled]>>
                 /\ devices'[call.target].state = polled
                 /\ devices'[call.target].online]_vars

\* a unified control request succeeded on the plug, which the registry held
\* offline at startup, and the registry now holds the plug's own state
C3_Witness ==
    \E c \in Slots :
        /\ calls[c].pc = "done" /\ calls[c].op = "control"
        /\ calls[c].res.success /\ calls[c].target = "plug"
        /\ devices["plug"].online
        /\ devices["plug"].state.power = (IF world["plug"].on = 1 THEN "on" ELSE "off")

\* The capabilities a request body refers to
Referenced(body) ==
    {k \in {"brightness", "color", "color_temp"} :
        \/ k = "brightness" /\ (body.brightness # Undef \/ body.level # Undef)
        \/ k = "color" /\ (body.color # NoColor \/ body.hue # Undef
                            \/ body.saturation # Undef)
        \/ k = "color_temp" /\ body.color_temp # Undef}

\* C4: a request that refers to a capability the device does not advertise
\* is rejected before any command is sent; in particular a unified control
\* request carrying brightness, color, hue/saturation or color_temp.
C4_MissingCapabilityNoExchange ==
    \A c \in Slots :
        /\ calls[c].op \in PostOps /\ calls[c].target # "none"
        /\ ~(Referenced(calls[c].req) \subseteq devices[calls[c].target].capabilities)
        => /\ calls[c].sent = <<>>
           /\ calls[c].pc = "done" /\ ~calls[c].res.success

\* Some field of a unified control request is outside its range
OutOfRange(body) ==
    \/ body.brightness # Undef /\ ~Within(body.brightness, 0, 100)
    \/ body.color # NoColor /\ \E k \in {"r", "g", "b"} : ~Within(body.color[k], 0, 255)
    \/ body.hue # Undef /\ ~Within(body.hue, 0, 360)
    \/ body.saturation # Undef /\ ~Within(body.saturation, 0, 100)
    \/ body.color_temp # Undef /\ ~Within(body.color_temp, 2500, 9000)

\* C5: a unified control request with a brightness, color, hue, saturation or
\* color_temp out of range fails without any command sent: no power command
\* goes out before the range check.
C5_OutOfRangeNoExchange ==
    \A c \in Slots :
        /\ calls[c].op = "control" /\ calls[c].target # "none"
        /\ OutOfRange(calls[c].req)
        => /\ calls[c].sent = <<>>
           /\ calls[c].pc = "done" /\ ~calls[c].res.success

\* C6: on a device that has an adapter and answers every exchange, set
\* brightness with a level in 0..100 succeeds exactly when the device
\* advertises 'brightness'; with a level outside 0..100 or not a number it is
\* answered as a validation error (400) with no command sent.
C6_SetBrightness ==
    \A c \in Slots :
        calls[c].op = "brightness" /\ calls[c].target # "none" =>
            LET call == calls[c]
                device == devices[call.target]
            IN  IF IsNumber(call.req.level) /\ Within(call.req.level, 0, 100)
                THEN /\ call.pc = "done" /\ device.brand = "kasa"
                     /\ \A i \in 1..Len(call.got) : call.got[i] = "ok"
                     => (call.res.success <=> "brightness" \in device.capabilities)
                ELSE /\ call.pc = "done" /\ call.res.status = 400
                     /\ ~call.res.success /\ call.sent = <<>>

\* set brightness succeeded at each end of the range
C6_Witness ==
    /\ \E c \in Slots :
          /\ calls[c].pc = "done" /\ calls[c].op = "brightness"
          /\ calls[c].req.level = 0 /\ calls[c].res.success
          /\ Len(calls[c].got) = 2
          /\ devices[calls[c].target].state.brightness = 0

\* C7: set RGB color is answered as a validation error (400) with no command
\* sent when the device lacks 'color', when r, g or b is not a number in
\* 0..255, or when the optional brightness is not a number in 0..100.
C7_SetColorValidation ==
    \A c \in Slots :
        LET call == calls[c]
            body == call.req
        IN  /\ call.op = "color" /\ call.target # "none"
            /\ \/ "color" \notin devices[call.target].capabilities
               \/ \E k \in {"r", "g", "b"} :
                     ~IsNumber(body.color[k]) \/ ~Within(body.color[k], 0, 255)
               \/ /\ body.brightness # Undef
                  /\ ~IsNumber(body.brightness) \/ ~Within(body.brightness, 0, 100)
            => /\ call.pc = "done" /\ call.res.status = 400
               /\ ~call.res.success /\ call.sent = <<>>

\* a colour request with g = 256 for the colour bulb was answered 400
C7_Witness ==
    \E c \in Slots :
        /\ calls[c].pc = "done" /\ calls[c].op = "color"
        /\ calls[c].target = "bulb" /\ calls[c].req.color = Rgb(0, 256, 0)
        /\ calls[c].req.brightness = 50
        /\ calls[c].res.status = 400

\* The setter a unified control request reaches after its power command is
\* called with an argument out of range
SetterArgsOutOfRange(body) ==
    LET badBrightness ==
            body.brightness # Undef /\ ~Within(body.brightness, 0, 100)
    IN  IF body.color # NoColor
        THEN \/ \E k \in {"r", "g", "b"} : ~Within(body.color[k], 0, 255)
             \/ badBrightness
        ELSE IF body.hue # Undef /\ body.saturation # Undef
        THEN \/ ~Within(body.hue, 0, 360) \/ ~Within(body.saturation, 0, 100)
             \/ badBrightness
        ELSE IF body.color_temp # Undef /\ body.color_temp # 0
        THEN ~Within(body.color_temp, 2500, 9000) \/ badBrightness
        ELSE badBrightness

\* C8: setBrightness, setColor, setColorTemperature and setRGBColor called
\* with an argument out of range (the optional brightness included) fail
\* without sending: the handler that reached the setter has sent no lighting
\* command and has failed.
C8_SettersValidateFirst ==
    \A c \in Slots :
        LET call == calls[c]
        IN  call.op = "control" /\ SetterArgsOutOfRange(call.req) =>
              /\ \A i \in 1..Len(call.sent) :
                    call.sent[i].kind # "transition_light_state"
              /\ /\ Len(call.got) = Len(call.sent) /\ call.sent # <<>>
                 /\ Last(call.sent) = SetRelayState(1) /\ Last(call.got) = "ok"
                 => call.pc = "done" /\ ~call.res.success

\* setColorTemperature(2700, 101) was reached after a power-on that the
\* device obeyed, and the request failed there
C8_Witness ==
    \E c \in Slots :
        /\ calls[c].pc = "done" /\ calls[c].op = "control"
        /\ calls[c].req.color_temp = 2700 /\ calls[c].req.brightness = 101
        /\ calls[c].sent = <<SetRelayState(1)>> /\ calls[c].got = <<"ok">>
        /\ calls[c].res.error = "Brightness must be between 0 and 100"

\* C9: an answer with a non-zero err_code fails the adapter operation that
\* received it, whichever it is: the handler ends there, with a failure (for
\* GET, with the device offline).
C9_VendorErrorFails ==
    \A c \in Slots :
        \A i \in 1..Len(calls[c].got) :
            calls[c].got[i] = "errcode" =>
                /\ calls[c].pc = "done" /\ Len(calls[c].sent) = i
                /\ IF calls[c].op = "get"
                   THEN ~calls[c].res.data[1].online
                   ELSE ~calls[c].res.success

\* C10: a unified control request with action=toggle polls first and sends
\* its only power command second; after a poll that reports the power state
\* it sends power-off if the device is on and power-on if it is off; after a
\* poll that fails (no answer, an unparseable answer, or an answer with a
\* non-zero err_code) it sends nothing more and fails.
C10_TogglePollsThenInverts ==
    [][\A c \in Slots :
          LET call == calls'[c]
          IN  call.op = "control" /\ call.req.action = "toggle" =>
                /\ call.sent # <<>> => call.sent[1] = GetSysinfo
                /\ \A i \in 1..Len(call.sent) :
                      call.sent[i].kind = "set_relay_state" => i = 2
                /\ SettledIn(c) /\ calls[c].stage = "toggle_poll" =>
                      IF Last(call.got) = "ok"
                      THEN /\ call.pc = "wait"
                           /\ call.sent =
                                <<GetSysinfo,
                                  SetRelayState(IF world[call.target].on = 1
                                                THEN 0 ELSE 1)>>
                      ELSE /\ call.pc = "done" /\ ~call.res.success
                           /\ call.sent = <<GetSysinfo>>]_vars

\* C11: a unified control request with action='off' sends the power-off
\* command first and after it nothing but the handler's state poll: no
\* lighting command and no power-on, whatever other fields it carries.
C11_OffSendsOnlyPowerOff ==
    \A c \in Slots :
        LET call == calls[c]
        IN  call.op = "control" /\ call.req.action = "off" =>
              /\ Len(call.sent) <= 2
              /\ \A i \in 1..Len(call.sent) :
                    call.sent[i] = (IF i = 1 THEN SetRelayState(0) ELSE GetSysinfo)

\* a power-off request carrying a colour succeeded after the power-off
\* command and the poll
C11_Witness ==
    \E c \in Slots :
        /\ calls[c].pc = "done" /\ calls[c].op = "control"
        /\ calls[c].req.action = "off" /\ calls[c].req.color = Rgb(255, 0, 0)
        /\ calls[c].res.success
        /\ calls[c].sent = <<SetRelayState(0), GetSysinfo>>

\* C12: every request for a device whose brand has no adapter is answered
\* with a failure that names the unsupported brand (or, on the POST routes,
\* with a validation failure of its body), and sends no command.
C12_UnsupportedBrandFails ==
    \A c \in Slots :
        LET call == calls[c]
        IN  /\ call.target # "none"
            /\ controllerError(devices[call.target]) # "undefined"
            => /\ call.sent = <<>>
               /\ call.pc = "done" /\ ~call.res.success
               /\ \/ call.res.error = controllerError(devices[call.target])
                  \/ call.op \in PostOps /\ call.res.status = 400

\* In this step a method of the registry was called
CalledNow == api'.n = api.n + 1

\* The registry after the method call recorded in a, made at time t on the
\* registry reg with a file write that succeeds or not
Applied(reg, a, t, ok) ==
    CASE a.op = "addDevice" -> addDevice(reg, a.arg, t, ok)
      [] a.op = "updateDevice" -> updateDevice(reg, a.id, a.arg, t, ok)
      [] a.op = "removeDevice" -> removeDevice(reg, a.id, ok)
      [] a.op = "setDeviceOnlineStatus" ->
           setDeviceOnlineStatus(reg, a.id, a.arg, t, ok)
      [] OTHER -> updateDeviceState(reg, a.id, a.arg, t, ok)

\* C13: updateDevice, removeDevice, setDeviceOnlineStatus and
\* updateDeviceState called with an id the registry does not hold return
\* false, leave the device map as it was and write no snapshot.
C13_UnknownIdNoMutation ==
    [][CalledNow /\ api'.op # "addDevice" /\ api'.id \notin DOMAIN devices =>
          /\ api'.ret = "false"
          /\ devices' = devices
          /\ snapshot' = snapshot
          /\ saves' = saves]_vars

\* removeDevice was called with an unknown id on a registry that holds
\* devices and has written its file before
C13_Witness ==
    /\ api.op = "removeDevice" /\ api.id \notin DOMAIN devices
    /\ api.ret = "false"
    /\ devices # EmptyMap /\ saves = 1 /\ api.n = 2

\* C14: addDevice and every updateDevice, setDeviceOnlineStatus and
\* updateDeviceState that finds its device set the device's lastSeen to the
\* time of the call, whatever lastSeen the caller passed; each of them, and
\* every removeDevice that finds its device, attempts exactly one write of
\* the whole device list.
C14_LastSeenAndOneWrite ==
    [][CalledNow /\ (api'.op = "addDevice" \/ api'.id \in DOMAIN devices) =>
          /\ api'.op # "removeDevice" => devices'[api'.id].lastSeen = now
          /\ api'.op # "addDevice" => api'.ret = "true"
          /\ saves' = saves + 1
          /\ snapshot' \in {snapshot, devices'}]_vars

\* updateDevice was called second with its own lastSeen of 99 and the device
\* carries the time of the call
C14_Witness ==
    /\ api.op = "updateDevice" /\ api.arg = [lastSeen |-> 99]
    /\ api.ret = "true" /\ api.n = 2
    /\ devices[api.id].lastSeen = 2

\* C15: whether or not the file write succeeds, a method call returns the
\* same value and leaves the same device map as it does when the write
\* succeeds.
C15_WriteFailureStillApplies ==
    [][CalledNow =>
          /\ devices' = Applied(Reg, api', now, TRUE).devices
          /\ saves' = Applied(Reg, api', now, TRUE).saves
          /\ api'.ret = (IF api'.op = "addDevice" THEN "undefined"
                         ELSE returned(Reg, api'.id))]_vars

\* setDeviceOnlineStatus took effect in memory and returned true although
\* its write failed: the file is not the device list
C15_Witness ==
    /\ api.op = "setDeviceOnlineStatus" /\ api.ret = "true"
    /\ api.n = 1 /\ saves = 1
    /\ snapshot # devices
    /\ devices[api.id].online = api.arg /\ devices[api.id].lastSeen = 1

\* C16: a registry constructed from a file that is missing, unreadable, not
\* JSON, without a devices array, or with a devices array that holds an
\* entry that is no device, is empty.
C16_BadFileLoadsEmpty ==
    /\ api.n = 0
    /\ \/ snapshot.kind # "list"
       \/ \E i \in 1..Len(snapshot.entries) : snapshot.entries[i] = Null
    => devices = EmptyMap

\* C17: the devices of getAllDevices have distinct ids, and getDevice(x)
\* returns nothing or a device whose id is x.
C17_IdsUnique ==
    /\ \A x \in DOMAIN devices : devices[x].id = x
    /\ \A x, y \in DOMAIN devices : x # y => devices[x].id # devices[y].id

\* C18: a buffer made by encrypt from a text decrypts to that text, for
\* every text, the empty one included.
C18_CipherRoundTrip ==
    exchange.data # <<>> /\ exchange.data = encrypt(exchange.reply) =>
        exchange.decrypted = exchange.reply

\* C19: an exchange settles, and settles once, whatever the peer does: as
\* long as its promise is pending some event of its socket is still to
\* come, and resolve or reject is called at most once.
C19_ExchangeSettlesOnce ==
    /\ exchange.socket # "none" /\ exchange.promise = "pending" =>
          ENABLED NextExchange
    /\ exchange.settles <= 1

\* C20: GET /api/devices/:id for a registered device always answers success.
\* After a poll that succeeded the device returned and the registry both
\* carry the polled state and online=true; after a poll that failed (no
\* answer, an unparseable answer, an answer with a non-zero err_code) or
\* could not be made, the device returned carries the state the registry
\* held, unchanged in the registry, and both have online=false.
C20_GetDegradesOnPollFailure ==
    [][\A c \in Slots :
          RespondsIn(c) /\ calls'[c].op = "get" /\ calls'[c].target # "none" =>
             LET call == calls'[c]
                 id == call.target
                 held == call.res.data[1]
                 polled == getState(sendCommand(world[id], GetSysinfo,
                                                "ok").response).state
             IN  /\ call.res.success
                 /\ IF call.got # <<>> /\ Last(call.got) = "ok"
                    THEN /\ held.state = polled /\ held.online
                         /\ devices'[id].state = polled /\ devices'[id].online
                    ELSE /\ held.state = devices[id].state
                         /\ ~held.online
                         /\ devices'[id].state = devices[id].state
                         /\ ~devices'[id].online]_vars

\* C21: every response of a handler is the uniform envelope: it carries a
\* timestamp, and either success with data and no error message, or failure
\* with an error message and no data.
C21_UniformEnvelope ==
    \A c \in Slots :
        calls[c].pc = "done" =>
            LET res == calls[c].res
            IN  /\ res.timestamp # Undef
                /\ res.success => res.data # <<>> /\ res.error = "undefined"
                /\ ~res.success => res.data = <<>> /\ res.error # "undefined"

\* a brightness request out of range has been answered with its envelope
C21_Witness ==
    \E c \in Slots :
        /\ calls[c].pc = "done"
        /\ calls[c].res.status = 400
        /\ calls[c].res.error = "Brightness level must be between 0 and 100"
        /\ calls[c].res.timestamp = now

\* C22: control calls on one device are not serialized, and the last write
\* wins.  Whenever a POST handler answers after an exchange, whatever other
\* handler is in flight on the same device, the registry holds what this
\* handler wrote: on success the state it polled and online=true, on failure
\* online=false beside the state that was there; and the state and online
\* flag of a device change in no step but one in which a handler for that
\* device answers.
C22_LastWriteWins ==
    [][/\ \A c \in Slots :
            /\ SettledIn(c) /\ calls'[c].pc = "done"
            /\ calls'[c].op \in PostOps
            => LET id == calls'[c].target
                   res == calls'[c].res
               IN  IF res.success
                   THEN /\ devices'[id].state = res.data[1].state
                        /\ devices'[id].online = TRUE
                   ELSE /\ devices'[id].state = devices[id].state
                        /\ devices'[id].online = FALSE
       /\ \A id \in DOMAIN devices :
            \/ devices'[id].state # devices[id].state
            \/ devices'[id].online # devices[id].online
            => \E c \in Slots : RespondsIn(c) /\ calls'[c].target = id
      ]_vars

\* two control calls on the bulb overlapped: the second to start sent its
\* commands and wrote 'off' while the first was in flight, the first answered
\* later, and the registry holds the first call's state 'on'
C22_Witness ==
    /\ \A c \in Slots :
          /\ calls[c].pc = "done" /\ calls[c].op = "control"
          /\ calls[c].target = "bulb" /\ calls[c].res.success
          /\ Len(calls[c].sent) = 2
    /\ calls[1].res.timestamp > calls[2].res.timestamp
    /\ calls[2].res.data[1].state.power = "off"
    /\ calls[1].res.data[1].state.power = "on"
    /\ devices["bulb"].state = calls[1].res.data[1].state
    /\ devices["bulb"].online

\* C23: a device's online flag is true only if the most recently completed
\* round-trip with it succeeded.  Step by step: when an exchange with a device
\* settles as a protocol failure (no connection, timeout, unparsable reply,
\* vendor error code) the flag is false afterwards, and a step in which no
\* exchange with the device settles never raises the flag.
C23_OnlineOnlyAfterSuccess ==
    [][\A id \in DOMAIN devices :
          LET settling == {c \in Slots : SettledIn(c) /\ calls[c].target = id}
          IN  /\ \A c \in settling :
                    Last(calls'[c].got) # "ok" => ~devices'[id].online
              /\ settling = {} /\ devices'[id].online => devices[id].online
      ]_vars

\* C24: each command is written to a socket of its own: no two commands,
\* of one handler or of two handlers in flight on the same device, share a
\* connection.
C24_OwnConnectionPerCommand ==
    \A c, d \in Slots :
        /\ Len(calls[c].clients) = Len(calls[c].sent)
        /\ \A i \in 1..Len(calls[c].sent), j \in 1..Len(calls[d].sent) :
              calls[c].clients[i] = calls[d].clients[j] => c = d /\ i = j

\* two handlers wait for exchanges with the bulb at the same time, one of
\* them on its second command
C24_Witness ==
    /\ \A c \in Slots : calls[c].pc = "wait" /\ calls[c].target = "bulb"
    /\ Len(calls[1].sent) = 2
    /\ Len(calls[2].sent) = 1

\* C25: the state a poll produced and the handler wrote to the registry holds
\* only fields the device's capability set supports: no brightness without
\* 'brightness', no hue or saturation without 'color', no color_temp without
\* 'color_temp'.
C25_StateWithinCapabilities ==
    \A id \in DOMAIN devices :
        LET device == devices[id]
        IN  /\ "brightness" \notin device.capabilities =>
                  device.state.brightness = Undef
            /\ "color" \notin device.capabilities =>
                  device.state.hue = Undef /\ device.state.saturation = Undef
            /\ "color_temp" \notin device.capabilities =>
                  device.state.color_temp = Undef

\* The request of the end-to-end scenario has been answered after the device
\* answered every exchange
EndToEndDone(c) ==
    /\ calls[c].pc = "done" /\ calls[c].op = "control"
    /\ calls[c].target = "bulb"
    /\ calls[c].req = [NoReq EXCEPT !.action = "on", !.brightness = 50]
    /\ \A i \in 1..Len(calls[c].got) : calls[c].got[i] = "ok"

C27_SnapshotReloads ==
    api.saved = "ok" =>
        /\ snapshot = devices
        /\ \A entries \in values(snapshot) :
              LET again == loadRegistry([kind |-> "list", entries |-> entries])
              IN  /\ DOMAIN again = DOMAIN devices
                  /\ \A id \in DOMAIN devices :
                        /\ again[id].state = devices[id].state
                        /\ again[id].online = devices[id].online

\* C28: get-by-fuzzy-name returns a registered device only if, after
\* lower-casing and stripping non-alphanumerics, the query is a substring of
\* the device's name, alias or id, or one of those is a substring of the
\* query; a missing alias is no text to match.
C28_FuzzyNameMatch ==
    api.op = "getDeviceByName" /\ api.ret # <<>> =>
        LET device == api.ret[1]
            query == normalize(api.arg)
            texts == {normalize(device.name), normalize(device.id)}
                     \cup (IF device.alias = <<>> THEN {}
                           ELSE {normalize(device.alias[1])})
        IN  /\ \E key \in DOMAIN devices : devices[key] = device
            /\ \E text \in texts : includes(text, query) \/ includes(query, text)

\* The sum of the counts of a Record, when all of them are numbers
RECURSIVE SumOfCounts(_)
SumOfCounts(counts) ==
    IF DOMAIN counts = {} THEN 0
    ELSE LET key == CHOOSE k \in DOMAIN counts : TRUE
         IN  counts[key] + SumOfCounts(MapDelete(counts, key))

SumsTo(counts, total) ==
    /\ \A key \in DOMAIN counts : counts[key] # NotNum
    /\ SumOfCounts(counts) = total

\* C30: the statistics agree with the registry they were taken from: total
\* is the number of registered devices, online + offline = total, and the
\* counts by type, by brand and by room each sum to total.
C30_StatsConsistent ==
    api.op = "getStats" =>
        LET stats == api.ret
        IN  /\ stats.total = Cardinality(DOMAIN devices)
            /\ stats.online + stats.offline = stats.total
            /\ SumsTo(stats.byType, stats.total)
            /\ SumsTo(stats.byBrand, stats.total)
            /\ SumsTo(stats.byRoom, stats.total)

\* C29: for integer r, g, b in 0..255 the hue of rgbToHsv is an integer in
\* 0..360 and the saturation an integer in 0..100, however a half is
\* rounded; (255,0,0) gives hue 0 and saturation 100, (0,255,0) hue 120 and
\* saturation 100, (0,0,0) saturation 0; and the colour command carries that
\* hue and saturation.
C29_RgbToHsv ==
    \A c \in Slots :
        calls[c].op = "color" =>
            LET rgb == calls[c].req.color
                hsv == rgbToHsv(rgb.r, rgb.g, rgb.b)
                below == rgbToHsvBelow(rgb.r, rgb.g, rgb.b)
            IN  /\ hsv.h \in 0..360 /\ hsv.s \in 0..100
                /\ below.h \in 0..360 /\ below.s \in 0..100
                /\ rgb = Rgb(255, 0, 0) => hsv.h = 0 /\ hsv.s = 100
                /\ rgb = Rgb(0, 255, 0) => hsv.h = 120 /\ hsv.s = 100
                /\ rgb = Rgb(0, 0, 0) => hsv.s = 0
                /\ rgb \in {Rgb(255, 0, 0), Rgb(0, 255, 0), Rgb(0, 0, 0)} =>
                      below = hsv
                /\ calls[c].sent[1] =
                      TransitionLightState(hsv.h, hsv.s, Undef, Undef)

\* the colour (255,0,1), whose hue rounds to 360, was set and the request
\* succeeded
C29_Witness ==
    \E c \in Slots :
        /\ calls[c].pc = "done" /\ calls[c].op = "color"
        /\ calls[c].req.color = Rgb(255, 0, 1)
        /\ calls[c].res.success
        /\ calls[c].sent[1].hue = 360
        /\ calls[c].sent[1].saturation = 100

\* C31: toggle never guesses a direction: when the answer to its poll carries
\* no usable power state (neither a relay state nor a light state, as in a
\* sysinfo error reply), the control call issues no power command and fails.
C31_ToggleNeverGuesses ==
    \A c \in Slots :
        LET call == calls[c]
        IN  /\ call.op = "control" /\ call.req.action = "toggle"
            /\ Len(call.got) >= 1 /\ call.got[1] = "errcode"
            => /\ call.sent = <<GetSysinfo>>
               /\ call.pc = "done"
               /\ ~call.res.success

\* C32: no retry and no continuation after a failure.  Within one call an
\* exchange that failed (no connection, timeout, unparsable reply, vendor
\* error code) is the call's last; no command is sent twice, the poll of a
\* toggle and the final state poll being the one pair of equal commands; and
\* a unified control call issues at most four exchanges.
C32_NoRetryNoContinuation ==
    \A c \in Slots :
        LET call == calls[c]
        IN  /\ \A i \in 1..Len(call.got) :
                  call.got[i] # "ok" => Len(call.sent) = i
            /\ \A i, j \in 1..Len(call.sent) :
                  i < j /\ call.sent[i] = call.sent[j] =>
                      /\ call.sent[i] = GetSysinfo
                      /\ call.req.action = "toggle" /\ i = 1
            /\ call.op = "control" => Len(call.sent) <= 4

\* C33: a successful control or poll operation refreshes the device's state,
\* online flag and lastSeen together.  The step in which a handler answers
\* with success after its state poll succeeded leaves the registry with the state it polled, online=true
\* and lastSeen at the time of the step, and no step changes the state of a
\* device without leaving it online with lastSeen at the time of the step:
\* no handler can find the new state beside the old online flag.
C33_RefreshedTogether ==
    [][/\ \A c \in Slots :
            LET id == calls'[c].target
                settled == sendCommand(world[id], GetSysinfo, Last(calls'[c].got))
                polled == getState(settled.response)
            IN  /\ SettledIn(c) /\ calls'[c].pc = "done" /\ calls'[c].res.success
                /\ settled.resolved /\ ~polled.thrown
                => /\ devices'[id].state = polled.state
                   /\ devices'[id].online
                   /\ devices'[id].lastSeen = now'
       /\ \A id \in DOMAIN devices :
            devices'[id].state # devices[id].state =>
                devices'[id].online /\ devices'[id].lastSeen = now'
      ]_vars

\* while one handler still waits for the plug, which was registered offline,
\* another has answered with success and the registry shows the plug's new
\* state, online, and seen at the time of that answer
C33_Witness ==
    /\ calls[1].pc = "wait" /\ calls[1].target = "plug"
    /\ calls[2].pc = "done" /\ calls[2].target = "plug"
    /\ calls[2].res.success
    /\ devices["plug"].state.power = "on"
    /\ devices["plug"].online
    /\ devices["plug"].lastSeen = calls[2].res.timestamp

\* C34: toggle is atomic with respect to its poll: the power command of a
\* toggle whose poll was answered is the opposite of the device's power
\* state when the device takes it, so the command flips the device, and two
\* toggles that both succeeded leave the device as it was.
C34_ToggleAtomic ==
    [][\A c \in Slots :
          LET call == calls[c]
          IN  /\ SettledIn(c)
              /\ call.op = "control" /\ call.req.action = "toggle"
              /\ call.stage = "power" /\ call.got = <<"ok">>
              /\ Last(calls'[c].got) = "ok"
              => /\ world'[call.target].on # world[call.target].on
                 /\ (\A d \in Slots \ {c} :
                        /\ calls[d].pc = "done" /\ calls[d].res.success
                        /\ calls[d].op = "control"
                        /\ calls[d].req.action = "toggle"
                        /\ calls[d].target = call.target)
                    => world'[call.target].on = Network[call.target].on
      ]_vars

\* The messages of the rejections for a validation reason: an out-of-range
\* value, a missing capability, a power state other than on/off
ValidationErrors ==
    {"State must be on or off",
     "Device does not support brightness control",
     "Device does not support color control",
     "Brightness level must be between 0 and 100",
     "Brightness must be between 0 and 100",
     "RGB values must be between 0 and 255",
     "Hue must be between 0 and 360",
     "Saturation must be between 0 and 100",
     "Color temperature must be between 2500K and 9000K"}

\* C35: a request rejected for a validation reason leaves the registry
\* unchanged: the step in which its handler answers with such a failure
\* changes no device (online flag and lastSeen included), not the snapshot
\* and not the number of snapshot writes; on every route, unified control
\* included.
C35_ValidationLeavesRegistry ==
    [][\A c \in Slots :
          /\ RespondsIn(c)
          /\ ~calls'[c].res.success
          /\ calls'[c].res.error \in ValidationErrors
          => UNCHANGED Registry
      ]_vars

\* The ids of the registered devices, as the devices themselves give them
IdsOf(map) == {map[key].id : key \in DOMAIN map}

\* Device `after` differs from `before` in no field outside fields
OnlyChanged(before, after, fields) ==
    /\ DOMAIN after = DOMAIN before \cup (fields \cap DOMAIN after)
    /\ \A f \in DOMAIN before \ fields : after[f] = before[f]

\* C36: registry frame conditions.  set-online-status changes only the
\* target's online flag and lastSeen, update-state only its state and
\* lastSeen, update(partial) only the supplied fields and lastSeen; none of
\* them changes another device; and the set of registered ids, as keys and
\* as the devices' own ids, changes through add and remove only.
C36_RegistryFrame ==
    [][CalledNow /\ api'.op \in {"setDeviceOnlineStatus", "updateDeviceState",
                                 "updateDevice"} =>
          LET id == api'.id
              fields == CASE api'.op = "setDeviceOnlineStatus" -> {"online"}
                          [] api'.op = "updateDeviceState" -> {"state"}
                          [] OTHER -> DOMAIN api'.arg
          IN  /\ DOMAIN devices' = DOMAIN devices
              /\ IdsOf(devices') = IdsOf(devices)
              /\ \A key \in DOMAIN devices :
                    IF key = id
                    THEN OnlyChanged(devices[key], devices'[key],
                                     fields \cup {"lastSeen"})
                    ELSE devices'[key] = devices[key]
      ]_vars

\* The lighting command the priority rule picks for the fields a request
\* supplies: colour, else hue with saturation, else colour temperature, else
\* brightness; brightness rides in the command picked.  <<>> when the request
\* supplies none of them
Chosen(req) ==
    IF req.color # NoColor
    THEN <<TransitionLightState(
              rgbToHsv(req.color.r, req.color.g, req.color.b).h,
              rgbToHsv(req.color.r, req.color.g, req.color.b).s,
              Undef, req.brightness)>>
    ELSE IF req.hue # Undef /\ req.saturation # Undef
    THEN <<TransitionLightState(req.hue, req.saturation, Undef, req.brightness)>>
    ELSE IF req.color_temp # Undef
    THEN <<TransitionLightState(Undef, Undef, req.color_temp, req.brightness)>>
    ELSE IF req.brightness # Undef
    THEN <<TransitionLightState(Undef, Undef, Undef, req.brightness)>>
    ELSE <<>>

\* A hue or a saturation supplied alone, with no colour above it to drop it
Orphaned(req) ==
    /\ req.color = NoColor
    /\ (req.hue # Undef) # (req.saturation # Undef)

LightingCommands(sent) ==
    {i \in 1..Len(sent) : sent[i].kind = "transition_light_state"}

\* C37: a unified control request issues at most one lighting command, right
\* after its power command, and a request that turned the device on and
\* succeeded has sent the command the priority colour > hue with saturation >
\* color_temp > brightness picks (none if it supplies no setting) and has
\* supplied no field that was neither applied nor dropped for a higher one.
C37_OneLightingCommandByPriority ==
    \A c \in Slots :
        LET call == calls[c]
            lighting == LightingCommands(call.sent)
        IN  call.op = "control" =>
              /\ Cardinality(lighting) <= 1
              /\ \A i \in lighting :
                    i > 1 /\ call.sent[i - 1] = SetRelayState(1)
              /\ /\ call.pc = "done" /\ call.res.success
                 /\ \E i \in 1..Len(call.sent) : call.sent[i] = SetRelayState(1)
                 => /\ ~Orphaned(call.req)
                    /\ IF Chosen(call.req) = <<>> THEN lighting = {}
                       ELSE \E i \in lighting :
                               call.sent[i] = Chosen(call.req)[1]

\* The devices of a list, as a set
Listed(entries) == {entries[i] : i \in 1..Len(entries)}

\* C38: for every registry state, the devices GET /api/devices lists for
\* online=true are those getOnlineDevices returns and as many as getStats
\* counts online, and the lists for online=true and online=false together
\* hold every registered device.
C38_OneOnlineClassification ==
    \A entries \in values(devices) :
        LET on == listDevices(entries, [NoQuery EXCEPT !.online = "true"])
            off == listDevices(entries, [NoQuery EXCEPT !.online = "false"])
        IN  /\ Listed(on) = Listed(getOnlineDevices(entries))
            /\ Len(on) = getStats(entries).online
            /\ Listed(on) \cup Listed(off) = Listed(entries)

\* C39: an exchange is decided by the first data, error or timeout event its
\* handlers receive: that event settles the promise and destroys the socket,
\* every later event leaves the promise and its error as they were, and once
\* the promise is settled the socket is destroyed and stays so.
C39_FirstEventDecides ==
    [][/\ exchange'.settles > exchange.settles =>
             /\ exchange'.promise # "pending"
             /\ exchange'.socket = "destroyed"
       /\ exchange.promise = "pending" /\ exchange'.promise # "pending" =>
             /\ exchange.settles = 0 /\ exchange'.settles = 1
             /\ exchange'.promise = "resolved" <=> parses(exchange'.decrypted)
       /\ exchange.promise # "pending" =>
             /\ exchange'.promise = exchange.promise
             /\ exchange'.error = exchange.error
             /\ exchange.socket = "destroyed"
             /\ exchange'.socket = "destroyed"]_vars

\* The promise was resolved by a reply, and an event delivered afterwards has
\* called reject
C39_Witness ==
    /\ exchange.promise = "resolved"
    /\ exchange.error = "undefined"
    /\ exchange.socket = "destroyed"
    /\ exchange.settles = 2

====
